---- MODULE Spec2Model ----
(***************************************************************************)
(* Model of src/app.py: the /summarize_reports handler, which walks the    *)
(* request's file_paths in order and, for each, downloads the file,        *)
(* extracts its text (native PDF text with a per-page OCR step, or OCR of  *)
(* a whole image) and summarizes it.                                       *)
(*                                                                         *)
(* Python strings are modelled as sequences of one-character strings, so   *)
(* that str.strip, str.lower, str.split and str.join are computed.         *)
(***************************************************************************)
EXTENDS Integers, Sequences, FiniteSets, TLC

\* ------------------------------------------------------------------ bounds
\* longest request (number of file_paths) explored
MaxRefs == 2
\* most pages a PDF document has
MaxPages == 2

\* ------------------------------------------------------------ string values
NL == <<"\n">>
Hello == <<"H","e","l","l","o">>
World == <<"W","o","r","l","d">>

\* file paths a request may carry
Paths ==
  { <<"a",".","p","d","f">>,
    <<"b",".","p","n","g">>,
    <<"C",".","J","P","G">>,
    <<"d",".","j","p","e","g">>,
    <<"e",".","t","x","t">>,
    <<"n","o","e","x","t">> }

\* what page.get_text("text") may return for a page
NativeTexts == { <<>>, <<" ">>, Hello, <<" ","a","\n">> }

\* what pytesseract.image_to_string may return
OcrTexts == { World, <<"\n">>, <<" ","b","\n">> }

\* message content the chat completion may return
Responses == { <<" ","o","k","\n">> }

\* str(e) of an exception raised by the chat completion call
ServiceErrors == { <<"d","o","w","n">> }

Upper == <<"A","B","C","D","E","F","G","H","I","J","K","L","M",
           "N","O","P","Q","R","S","T","U","V","W","X","Y","Z">>
LowerAlpha == <<"a","b","c","d","e","f","g","h","i","j","k","l","m",
                "n","o","p","q","r","s","t","u","v","w","x","y","z">>

\* ----------------------------------------------------------- str functions
\* characters str.strip() removes (of the characters the model uses)
IsSpace(c) == c \in {" ", "\n", "\t", "\r", "\f"}

\* str.strip()
strip(s) ==
  LET keep == {k \in 1..Len(s) : ~IsSpace(s[k])}
  IN  IF keep = {} THEN <<>>
      ELSE LET a == CHOOSE k \in keep : \A j \in keep : k <= j
               b == CHOOSE k \in keep : \A j \in keep : k >= j
           IN  SubSeq(s, a, b)

\* str.lower(), character by character
ToLower ==
  [c \in {Upper[u] : u \in 1..Len(Upper)} |->
     LowerAlpha[CHOOSE u \in 1..Len(Upper) : Upper[u] = c]]

lower(s) ==
  [k \in 1..Len(s) |-> IF s[k] \in DOMAIN ToLower THEN ToLower[s[k]] ELSE s[k]]

\* s.split('.')[-1]
SplitLast(s) ==
  LET dots == {k \in 1..Len(s) : s[k] = "."}
  IN  IF dots = {} THEN s
      ELSE LET d == CHOOSE k \in dots : \A j \in dots : k >= j
           IN  SubSeq(s, d + 1, Len(s))

\* file_path.lower().split('.')[-1], then f".{file_extension}"
FileExtension(file_path) == <<".">> \o SplitLast(lower(file_path))

\* sep.join(parts)
RECURSIVE join(_, _)
join(sep, parts) ==
  IF parts = <<>> THEN <<>>
  ELSE IF Len(parts) = 1 THEN parts[1]
  ELSE parts[1] \o sep \o join(sep, Tail(parts))

Sentinel ==
  <<"N","o"," ","t","e","x","t"," ","p","r","o","v","i","d","e","d"," ",
    "f","o","r"," ","s","u","m","m","a","r","i","z","a","t","i","o","n",".">>

ErrPrefix ==
  <<"E","r","r","o","r"," ","i","n"," ","s","u","m","m","a","r","i","z",
    "i","n","g"," ","t","e","x","t",":"," ">>

\* ------------------------------------------------------- decisions of the code
\* faulty variant: '.jpeg' left out of the image list
Branch_noJpeg(file_extension) ==
  IF file_extension = <<".","p","d","f">> THEN "pdf"
  ELSE IF file_extension \in { <<".","p","n","g">>, <<".","j","p","g">> }
       THEN "image"
  ELSE "other"

\* faulty variant: `else` in place of the `elif` on the image list
Branch_elseImage(file_extension) ==
  IF file_extension = <<".","p","d","f">> THEN "pdf" ELSE "image"

\* which branch of extract_text_from_file a file_extension takes
Branch(file_extension) ==
  IF file_extension = <<".","p","d","f">> THEN "pdf"
  ELSE IF file_extension \in { <<".","p","n","g">>, <<".","j","p","g">>,
                               <<".","j","p","e","g">> }
       THEN "image"
  ELSE "other"

\* faulty variant: `not page_text`, without the strip
PageIsBlank_noStrip(page_text) == page_text = <<>>

\* `not page_text.strip()`: the page gets the OCR step
PageIsBlank(page_text) == strip(page_text) = <<>>

\* faulty variant: the empty-text guard is missing
NoText_never(text) == FALSE

\* `not text.strip()`: summarize_text answers without calling the service
NoText(text) == strip(text) = <<>>

\* faulty variant: the except branch returns str(e) alone
ErrorResult_bare(e) == e

\* the except branch of summarize_text
ErrorResult(e) == ErrPrefix \o e

\* faulty variant: the loop stays on the same file_path
Advance_stuck(i) == i

\* the for loop of summarize_reports moves to the next file_path
Advance(i) == i + 1

\* ---------------------------------------------------------------- state
VARIABLES
  refs,        \* report_request.file_paths
  idx,         \* 1-based position of the file_path the loop is at
  pc,          \* where the handler is
  summaries,   \* the list summaries
  response,    \* the "summary" field of the returned object
  error,       \* the exception that left the handler, "none" if none
  loc,         \* locals of the running extract_text_from_file call
  h,           \* calls made by the running extract_text_from_file call
  trace,       \* stage invocations of the request, in order
  log          \* what summarize_text did at each position

vars == <<refs, idx, pc, summaries, response, error, loc, h, trace, log>>

\* locals of extract_text_from_file before the call / after its frame is gone
NoLocals ==
  [ file_extension |-> <<>>,
    extracted_text |-> <<>>,
    npages         |-> 0,
    page           |-> 0,
    pdf_document   |-> FALSE,   \* a fitz document is referenced
    pix            |-> 0 ]      \* page whose pixmap/image pix and img reference

NoCalls ==
  [ opens      |-> 0,      \* fitz.open calls
    page_texts |-> <<>>,   \* get_text result of each page read
    rasters    |-> <<>>,   \* get_pixmap calls per page read
    ocr_calls  |-> <<>>,   \* image_to_string calls per page read
    ocr_texts  |-> <<>>,   \* image_to_string result per page read
    img_ocr    |-> 0,      \* image_to_string calls on the whole image
    img_text   |-> <<>>,   \* its result
    returned   |-> FALSE ] \* the call returned a value

RECURSIVE SeqsUpTo(_, _)
SeqsUpTo(S, n) ==
  IF n = 0 THEN { <<>> }
  ELSE LET shorter == SeqsUpTo(S, n - 1)
       IN  shorter \cup { Append(s, x) : s \in {t \in shorter : Len(t) = n - 1}, x \in S }

Init ==
  /\ refs \in SeqsUpTo(Paths, MaxRefs)
  /\ idx = 1
  /\ pc = IF refs = <<>> THEN "join" ELSE "fetch"
  /\ summaries = <<>>
  /\ response = <<>>
  /\ error = "none"
  /\ loc = NoLocals
  /\ h = NoCalls
  /\ trace = <<>>
  /\ log = <<>>

\* ---------------------------------------------------------------- actions
\* download_file_from_firebase: status 200 returns the content
FetchOk ==
  /\ pc = "fetch"
  /\ pc' = "extract"
  /\ trace' = Append(trace, <<"fetch", idx>>)
  /\ loc' = NoLocals
  /\ h' = NoCalls
  /\ UNCHANGED <<refs, idx, summaries, response, error, log>>

\* download_file_from_firebase: any other status raises HTTPException
FetchFail ==
  /\ pc = "fetch"
  /\ pc' = "raised"
  /\ error' = "RetrievalError"
  /\ trace' = Append(trace, <<"fetch", idx>>)
  /\ UNCHANGED <<refs, idx, summaries, response, loc, h, log>>

\* the call of extract_text_from_file: extension, dispatch, and for a PDF
\* fitz.open, which returns a document of n pages
ExtractCall ==
  /\ pc = "extract"
  /\ trace' = Append(trace, <<"extract", idx>>)
  /\ LET ext == FileExtension(refs[idx])
         l0  == [NoLocals EXCEPT !.file_extension = ext]
     IN  CASE Branch(ext) = "pdf" ->
                \E n \in 0..MaxPages :
                  /\ loc' = [l0 EXCEPT !.pdf_document = TRUE, !.npages = n, !.page = 1]
                  /\ h' = [NoCalls EXCEPT !.opens = 1]
                  /\ pc' = IF n = 0 THEN "return" ELSE "get_text"
           [] Branch(ext) = "image" ->
                /\ loc' = l0
                /\ h' = NoCalls
                /\ pc' = "image"
           [] OTHER ->
                /\ loc' = l0
                /\ h' = NoCalls
                /\ pc' = "return"
  /\ UNCHANGED <<refs, idx, summaries, response, error, log>>

\* fitz.open raises on a stream that is no PDF
OpenFail ==
  /\ pc = "extract"
  /\ Branch(FileExtension(refs[idx])) = "pdf"
  /\ trace' = Append(trace, <<"extract", idx>>)
  /\ loc' = [NoLocals EXCEPT !.file_extension = FileExtension(refs[idx])]
  /\ h' = [NoCalls EXCEPT !.opens = 1]
  /\ pc' = "raised"
  /\ error' = "MalformedDocument"
  /\ UNCHANGED <<refs, idx, summaries, response, log>>

\* one iteration of `for page in pdf_document` up to the OCR test
GetText ==
  /\ pc = "get_text"
  /\ \E page_text \in NativeTexts :
       /\ loc' = [loc EXCEPT
                    !.extracted_text = @ \o page_text \o NL,
                    !.page = IF PageIsBlank(page_text) THEN @ ELSE @ + 1]
       /\ h' = [h EXCEPT !.page_texts = Append(@, page_text),
                         !.rasters = Append(@, 0),
                         !.ocr_calls = Append(@, 0),
                         !.ocr_texts = Append(@, <<>>)]
       /\ pc' = IF PageIsBlank(page_text) THEN "get_pixmap"
                ELSE IF loc.page = loc.npages THEN "return" ELSE "get_text"
  /\ UNCHANGED <<refs, idx, summaries, response, error, trace, log>>

\* pix = page.get_pixmap(); img = Image.open(...)
GetPixmap ==
  /\ pc = "get_pixmap"
  /\ loc' = [loc EXCEPT !.pix = loc.page]
  /\ h' = [h EXCEPT !.rasters[loc.page] = @ + 1]
  /\ pc' = "ocr"
  /\ UNCHANGED <<refs, idx, summaries, response, error, trace, log>>

\* extracted_text += pytesseract.image_to_string(img) + "\n"
OcrPageOk ==
  /\ pc = "ocr"
  /\ \E t \in OcrTexts :
       /\ loc' = [loc EXCEPT !.extracted_text = @ \o t \o NL, !.page = @ + 1]
       /\ h' = [h EXCEPT !.ocr_calls[loc.page] = @ + 1, !.ocr_texts[loc.page] = t]
  /\ pc' = IF loc.page = loc.npages THEN "return" ELSE "get_text"
  /\ UNCHANGED <<refs, idx, summaries, response, error, trace, log>>

\* pytesseract.image_to_string raises
OcrPageFail ==
  /\ pc = "ocr"
  /\ h' = [h EXCEPT !.ocr_calls[loc.page] = @ + 1]
  /\ pc' = "raised"
  /\ error' = "OcrFailure"
  /\ UNCHANGED <<refs, idx, summaries, response, loc, trace, log>>

\* the image branch: Image.open, then extracted_text = image_to_string(img)
ImageOcrOk ==
  /\ pc = "image"
  /\ \E t \in OcrTexts :
       /\ loc' = [loc EXCEPT !.extracted_text = t]
       /\ h' = [h EXCEPT !.img_ocr = @ + 1, !.img_text = t]
  /\ pc' = "return"
  /\ UNCHANGED <<refs, idx, summaries, response, error, trace, log>>

\* the image branch: Image.open or image_to_string raises
ImageFail ==
  /\ pc = "image"
  /\ \E kind \in {"MalformedDocument", "OcrFailure"} :
       /\ error' = kind
       /\ h' = [h EXCEPT !.img_ocr = IF kind = "OcrFailure" THEN @ + 1 ELSE @]
  /\ pc' = "raised"
  /\ UNCHANGED <<refs, idx, summaries, response, loc, trace, log>>

\* return extracted_text.strip(): the frame goes, and with it the last
\* references to the document, the pixmap and the image
ExtractReturn ==
  /\ pc = "return"
  /\ loc' = [NoLocals EXCEPT
               !.file_extension = loc.file_extension,
               !.extracted_text = strip(loc.extracted_text)]
  /\ h' = [h EXCEPT !.returned = TRUE]
  /\ pc' = "summarize"
  /\ UNCHANGED <<refs, idx, summaries, response, error, trace, log>>

\* summarize_text(extracted_text) and summaries.append(summary)
Summarize ==
  /\ pc = "summarize"
  /\ LET text == loc.extracted_text
         done(summary, called, failed, msg) ==
           /\ summaries' = Append(summaries, summary)
           /\ trace' = trace \o <<<<"summarize", idx>>>>
                             \o (IF called THEN <<<<"service", idx>>>> ELSE <<>>)
           /\ log' = Append(log, [blank |-> text = <<>> \/ \A k \in 1..Len(text) : IsSpace(text[k]),
                                  called |-> called, failed |-> failed, msg |-> msg])
     IN  IF NoText(text)
         THEN done(Sentinel, FALSE, FALSE, <<>>)
         ELSE \/ \E r \in Responses : done(strip(r), TRUE, FALSE, <<>>)
              \/ \E e \in ServiceErrors : done(ErrorResult(e), TRUE, TRUE, e)
  /\ idx' = Advance(idx)
  /\ pc' = IF Advance(idx) > Len(refs) THEN "join" ELSE "fetch"
  /\ loc' = NoLocals
  /\ h' = NoCalls
  /\ UNCHANGED <<refs, response, error>>

\* return {"summary": "\n\n".join(summaries)}
Respond ==
  /\ pc = "join"
  /\ response' = join(<<"\n","\n">>, summaries)
  /\ pc' = "done"
  /\ UNCHANGED <<refs, idx, summaries, error, loc, h, trace, log>>

\* the exception has left the handler: the traceback, which kept the frame of
\* extract_text_from_file and its locals alive, is dropped
Unwind ==
  /\ pc = "raised"
  /\ pc' = "aborted"
  /\ loc' = NoLocals
  /\ UNCHANGED <<refs, idx, summaries, response, error, h, trace, log>>

Next ==
  \/ FetchOk
  \/ FetchFail
  \/ ExtractCall
  \/ OpenFail
  \/ GetText
  \/ GetPixmap
  \/ OcrPageOk
  \/ OcrPageFail
  \/ ImageOcrOk
  \/ ImageFail
  \/ ExtractReturn
  \/ Summarize
  \/ Respond
  \/ Unwind

Spec == Init /\ [][Next]_vars

\* ------------------------------------------------------- vocabulary of claims
Whitespace == {" ", "\n", "\t", "\r", "\f"}

AllSpace(s) == \A k \in 1..Len(s) : s[k] \in Whitespace

RECURSIVE TrimLeft(_)
TrimLeft(s) ==
  IF s = <<>> THEN <<>>
  ELSE IF Head(s) \in Whitespace THEN TrimLeft(Tail(s)) ELSE s

RECURSIVE TrimRight(_)
TrimRight(s) ==
  IF s = <<>> THEN <<>>
  ELSE IF s[Len(s)] \in Whitespace THEN TrimRight(SubSeq(s, 1, Len(s) - 1)) ELSE s

Trimmed(s) == TrimRight(TrimLeft(s))

Contains(s, sub) ==
  \E k \in 0..(Len(s) - Len(sub)) : SubSeq(s, k + 1, k + Len(sub)) = sub

PdfTag == <<".","p","d","f">>
ImageTags == { <<".","p","n","g">>, <<".","j","p","g">>, <<".","j","p","e","g">> }

\* the tag the handler derives from each path
TagOf == [path \in Paths |-> FileExtension(path)]

Terminal == pc \in {"done", "aborted"}

Events(stage, i) == {k \in 1..Len(trace) : trace[k] = <<stage, i>>}

StageRank(stage) ==
  CASE stage = "fetch" -> 1 [] stage = "extract" -> 2
    [] stage = "summarize" -> 3 [] stage = "service" -> 4

\* the extraction of a PDF has returned its text
PdfReturned == h.returned /\ h.opens = 1

\* the text the page-by-page rule picks for page p of the PDF being read
Chosen(p) ==
  IF AllSpace(h.page_texts[p]) THEN h.ocr_texts[p] ELSE h.page_texts[p]

RECURSIVE ChosenLines(_)
ChosenLines(p) ==
  IF p > Len(h.page_texts) THEN <<>>
  ELSE Chosen(p) \o <<"\n">> \o ChosenLines(p + 1)

BlankPages == {p \in 1..Len(h.page_texts) : AllSpace(h.page_texts[p])}

RECURSIVE SumCalls(_)
SumCalls(p) ==
  IF p > Len(h.ocr_calls) THEN 0 ELSE h.ocr_calls[p] + SumCalls(p + 1)

\* ------------------------------------------------------------------- claims

\* C1: when the batch operation has ended, whatever failed on the way, it has
\* ended with a result, the result sequence has exactly one entry per input
\* reference, and entry i is the one produced for reference i.
C1_OneEntryPerInput ==
  Terminal =>
    /\ pc = "done"
    /\ Len(summaries) = Len(refs)
    /\ \A i \in 1..Len(refs) : Cardinality(Events("summarize", i)) = 1

\* C2: a failed fetch or a failed extraction at position i does not abort the
\* batch: once the operation has ended, position i holds a result and every
\* later reference has been fetched, extracted and summarized.
C2_PerDocumentIsolation ==
  (Terminal /\ error \in {"RetrievalError", "MalformedDocument", "OcrFailure"}) =>
    /\ Len(summaries) >= idx
    /\ \A j \in (idx + 1)..Len(refs) :
         /\ Events("fetch", j) # {}
         /\ Events("extract", j) # {}
         /\ Events("summarize", j) # {}

\* C3: for a document whose extracted text is empty or whitespace-only the
\* summarization service is never called and the slot is exactly the sentinel
\* string; the service is called only for documents with non-whitespace text.
C3_EmptyTextSkip ==
  /\ Len(log) = Len(summaries)
  /\ \A i \in 1..Len(log) :
       /\ log[i].blank =>
            /\ Events("service", i) = {}
            /\ summaries[i] = Sentinel
       /\ Events("service", i) # {} => ~log[i].blank
       /\ ~log[i].blank => Cardinality(Events("service", i)) = 1

C3_Witness ==
  \E i, j \in 1..Len(log) :
    /\ log[i].blank /\ summaries[i] = Sentinel
    /\ ~log[j].blank /\ Events("service", j) # {}

\* C4: the text extract returns for a PDF is the trimmed concatenation, in page
\* order, of one chosen text per page followed by a newline: the native text
\* when it has a non-whitespace character, the OCR text otherwise, never both.
C4_OneTextPerPage ==
  PdfReturned => loc.extracted_text = Trimmed(ChosenLines(1))

\* C5: while a PDF is read, OCR runs on a page only if its native text is empty
\* or whitespace-only, at most once, and exactly once when the page is done;
\* when extract returns, the OCR calls number as many as the blank pages and
\* each blank page's OCR output (trimmed) is part of the returned text.
C5_OcrOnlyOnBlankPages ==
  /\ \A p \in 1..Len(h.page_texts) :
       /\ h.ocr_calls[p] <= 1
       /\ h.ocr_calls[p] = 1 => AllSpace(h.page_texts[p])
       /\ (h.returned \/ p < loc.page) =>
            h.ocr_calls[p] = IF AllSpace(h.page_texts[p]) THEN 1 ELSE 0
  /\ PdfReturned =>
       /\ SumCalls(1) = Cardinality(BlankPages)
       /\ \A p \in BlankPages : Contains(loc.extracted_text, Trimmed(h.ocr_texts[p]))

C5_Witness ==
  /\ PdfReturned
  /\ \E p, q \in 1..Len(h.page_texts) :
       /\ h.page_texts[p] = <<" ">> /\ h.ocr_calls[p] = 1 /\ h.ocr_texts[p] = World
       /\ ~AllSpace(h.page_texts[q]) /\ h.ocr_calls[q] = 0

\* C6: for a .png, .jpg or .jpeg input, extraction never opens a PDF, reads no
\* native text and rasterizes no page, runs OCR once on the whole image, and
\* returns the OCR output trimmed of leading and trailing whitespace.
C6_ImageIsOcrOnly ==
  loc.file_extension \in ImageTags =>
    /\ h.opens = 0
    /\ h.page_texts = <<>>
    /\ h.rasters = <<>>
    /\ h.img_ocr <= 1
    /\ pc \in {"return", "summarize"} => h.img_ocr = 1
    /\ h.returned => loc.extracted_text = Trimmed(h.img_text)

C6_Witness ==
  /\ h.returned
  /\ loc.file_extension = <<".","j","p","e","g">>
  /\ h.img_ocr = 1
  /\ h.img_text = <<" ","b","\n">>
  /\ loc.extracted_text = <<"b">>

\* C7: for a tag that is neither .pdf nor an image tag (a path without '.'
\* gets the tag '.' plus the whole lower-cased path), extraction raises nothing,
\* reads no native text, runs no OCR and returns the empty string, and the
\* document's slot is the empty-text sentinel.
C7_OtherTagYieldsEmpty ==
  /\ (loc.file_extension # <<>> /\ \A k \in 1..Len(refs[idx]) : refs[idx][k] # ".") =>
       loc.file_extension = <<".">> \o lower(refs[idx])
  /\ (loc.file_extension # <<>> /\ loc.file_extension \notin ImageTags \cup {PdfTag}) =>
       /\ error = "none"
       /\ pc \in {"return", "summarize"}
       /\ h.opens = 0 /\ h.page_texts = <<>> /\ h.rasters = <<>> /\ h.img_ocr = 0
       /\ loc.extracted_text = <<>>
  /\ \A i \in 1..Len(summaries) :
       TagOf[refs[i]] \notin ImageTags \cup {PdfTag} =>
         /\ summaries[i] = Sentinel
         /\ Events("service", i) = {}

C7_Witness ==
  /\ Len(summaries) = 2
  /\ refs[1] = <<"n","o","e","x","t">> /\ summaries[1] = Sentinel
  /\ refs[2] = <<"e",".","t","x","t">> /\ summaries[2] = Sentinel

\* C8: the stage invocations of a run are sequential and never repeated: the
\* trace starts with the fetch of position 1, every fetch but the first comes
\* right after the summarization of the position before it, every other stage
\* comes right after the stage before it for the same position (fetch, extract,
\* summarize, service call), so no stage runs twice for a position; and no
\* document is opened and no page or image rasterized or OCRed twice.
C8_SequentialNoRetry ==
  /\ \A k \in 1..Len(trace) :
       /\ trace[k][2] \in 1..Len(refs)
       /\ IF StageRank(trace[k][1]) = 1
          THEN k > 1 =>
                 /\ trace[k - 1][2] = trace[k][2] - 1
                 /\ StageRank(trace[k - 1][1]) >= 3
          ELSE /\ k > 1
               /\ trace[k - 1][2] = trace[k][2]
               /\ StageRank(trace[k - 1][1]) = StageRank(trace[k][1]) - 1
  /\ trace # <<>> => trace[1] = <<"fetch", 1>>
  /\ h.opens <= 1 /\ h.img_ocr <= 1
  /\ \A p \in 1..Len(h.page_texts) : h.ocr_calls[p] <= 1 /\ h.rasters[p] <= 1
  /\ loc.pdf_document => Len(h.page_texts) <= loc.npages
  /\ error # "none" => pc \in {"raised", "aborted"}

C8_Witness ==
  /\ pc = "done"
  /\ Len(refs) = 2
  /\ trace = << <<"fetch", 1>>, <<"extract", 1>>, <<"summarize", 1>>, <<"service", 1>>,
                <<"fetch", 2>>, <<"extract", 2>>, <<"summarize", 2>> >>

\* C9: a page's bitmap is held only while that page is processed, and once
\* extract has returned or failed no document handle and no bitmap it acquired
\* is still held.
C9_ScopedResources ==
  /\ (pc \in {"get_text", "get_pixmap", "ocr"} /\ loc.pix # 0) => loc.pix = loc.page
  /\ pc \notin {"get_text", "get_pixmap", "ocr", "return"} =>
       ~loc.pdf_document /\ loc.pix = 0

\* C10: summarize_text never raises: a failed service call at position i leaves
\* "Error in summarizing text: " plus the error's description in slot i, the
\* loop goes on with the fetch of reference i+1 (or the response after the
\* last), and a run that ends with a response has one entry per input.
C10_SummarizeNeverRaises ==
  /\ \A i \in 1..Len(log) :
       log[i].failed =>
         /\ summaries[i] = ErrPrefix \o log[i].msg
         /\ \A k \in Events("service", i) :
              IF i < Len(refs)
              THEN IF k < Len(trace) THEN trace[k + 1] = <<"fetch", i + 1>>
                   ELSE pc = "fetch" /\ idx = i + 1
              ELSE k = Len(trace) /\ pc \in {"join", "done"}
  /\ pc \in {"raised", "aborted"} =>
       /\ trace # <<>>
       /\ trace[Len(trace)][1] \in {"fetch", "extract"}
  /\ pc = "done" => Len(summaries) = Len(refs)

C10_Witness ==
  /\ pc = "done"
  /\ Len(refs) = 2
  /\ log[1].failed /\ summaries[1] = ErrPrefix \o <<"d","o","w","n">>
  /\ ~log[2].failed /\ Events("service", 2) # {}

TypeOK ==
  /\ pc \in {"fetch", "extract", "get_text", "get_pixmap", "ocr", "image",
             "return", "summarize", "join", "done", "raised", "aborted"}
  /\ idx \in 1..(Len(refs) + 1)
  /\ Len(summaries) <= Len(refs)
====
